---- MODULE Spec2Model ----
(***************************************************************************)
(* deccp: batch extraction and decompilation of the .pyj members of a ZIP  *)
(* archive (main.py).  The model follows main(): enumeration of the        *)
(* archive with the skip check, the process pool with one task per work    *)
(* item, the as_completed loop that writes sources or records errors, and  *)
(* the final dump of decompile_errors.json.  Several runs against the same *)
(* archive and output root follow one another.                             *)
(***************************************************************************)
EXTENDS Integers, Sequences, FiniteSets, TLC

\* ------------------------------------------------------------------ bounds
\* longest archive listing explored
MaxEntries == 2
\* number of consecutive runs of main() against the same archive and root
MaxRuns == 2
\* number of files or directories already below the output root (or at an
\* absolute destination) before the first run
MaxPrecreated == 1

\* ------------------------------------------------------- names and paths
\* A member name as zf.namelist() returns it, split the way pathlib splits
\* it: leading "/" (abs), directory components, final stem and final suffix.
Member(abs, dir, stem, suffix) ==
    [abs |-> abs, dir |-> dir, stem |-> stem, suffix |-> suffix]

\* the member names the explored archives are built from
Members ==
    { Member(FALSE, <<>>, "a", ".pyj"),
      Member(FALSE, <<>>, "c", ".pyj"),
      Member(FALSE, <<"a.py">>, "b", ".pyj"),
      Member(TRUE, <<"tmp">>, "x", ".pyj"),
      Member(FALSE, <<"x", "..">>, "a", ".pyj"),
      Member(FALSE, <<>>, "r", ".txt") }

\* -j/--jobs values explored (argparse accepts any int)
JobsValues == {0, 1, 2}

\* member_name_in_zip.endswith(".pyj")
EndsWithPyj(n) == n.suffix = ".pyj"

\* (client_code_dir / member_name_in_zip).with_suffix(".py"): a relative name
\* is anchored at client_code, an absolute name replaces the anchor.
OutPath(n) == [abs |-> n.abs, parts |-> n.dir \o <<n.stem \o ".py">>]

\* Path.parent
Parent(p) == [p EXCEPT !.parts = SubSeq(p.parts, 1, Len(p.parts) - 1)]

\* A path with its ".." components folded away, as the kernel resolves it
\* when every directory on the way exists.
RECURSIVE Canon(_)
Canon(parts) ==
    IF parts = <<>> THEN <<>>
    ELSE LET init == Canon(SubSeq(parts, 1, Len(parts) - 1))
             last == parts[Len(parts)]
         IN  IF last = ".." /\ init # <<>>
             THEN SubSeq(init, 1, Len(init) - 1)
             ELSE Append(init, last)

PyjMembers == { m \in Members : EndsWithPyj(m) }

\* the locations whose state the model tracks: the destination that line
\* 128 gives for every member name, and every directory below client_code on
\* the way to one
Locs ==
    { [abs |-> n.abs, parts |-> Canon(OutPath(n).parts)] : n \in Members }
    \cup { [abs |-> FALSE, parts |-> n.dir] : n \in { m \in PyjMembers :
               ~m.abs /\ m.dir # <<>> /\ Canon(m.dir) = m.dir } }
    \cup { [abs |-> FALSE, parts |-> <<m.dir[1]>>] : m \in { m \in PyjMembers :
               ~m.abs /\ m.dir # <<>> } }

\* client_code itself (created at startup, line 121) and the directories
\* outside the output root that an absolute member names are directories
\* throughout.
FixedDir(loc) == loc \notin Locs

Absent == [kind |-> "none", text |-> ""]
Dir == [kind |-> "dir", text |-> ""]
File(text) == [kind |-> "file", text |-> text]

KindOf(f, loc) == IF FixedDir(loc) THEN "dir" ELSE f[loc].kind

\* F(v), written so that v is computed once however often F uses it
Bind(v, F(_)) == CHOOSE r \in { F(x) : x \in {v} } : TRUE

\* Path resolution by the kernel: the location the first k components of p
\* name.  Each component is looked up in the location reached so far, which
\* must be an existing directory (ENOENT if it is missing, ENOTDIR if it is a
\* file); ".." leads to the directory above.
RECURSIVE Walk(_, _, _)
Walk(f, p, k) ==
    IF k = 0 THEN [ok |-> TRUE, err |-> "", loc |-> [abs |-> p.abs, parts |-> <<>>]]
    ELSE Bind(Walk(f, p, k - 1), LAMBDA up :
             IF ~up.ok THEN up
             ELSE IF KindOf(f, up.loc) = "none"
             THEN [ok |-> FALSE, err |-> "ENOENT", loc |-> up.loc]
             ELSE IF KindOf(f, up.loc) = "file"
             THEN [ok |-> FALSE, err |-> "ENOTDIR", loc |-> up.loc]
             ELSE [ok |-> TRUE, err |-> "",
                   loc |-> [up.loc EXCEPT !.parts = Canon(Append(@, p.parts[k]))]])

Resolve(f, p) == Walk(f, p, Len(p.parts))

\* what stat() finds at path p
Stat(f, p) ==
    Bind(Resolve(f, p), LAMBDA w : IF w.ok THEN KindOf(f, w.loc) ELSE "none")

\* Path.exists(): true of files and of directories alike
Exists(f, p) == Stat(f, p) # "none"

\* Path.relative_to(output_base_dir): lexical; raises ValueError for a path
\* that does not start with the output root, i.e. an absolute member's path.
RelativeToRaises(p) == p.abs

\* ------------------------------------------------------------ the decoder
\* What the bytes of a member are: a compressed module, bytes that zlib
\* rejects, or a module on which the decompiler raises an exception whose
\* str() is empty (a bare AssertionError).
BlobKinds == {"module", "badzlib", "assertfail"}

\* What zf.read(name) does with a member: it returns bytes of one of the
\* kinds above, or raises (zipfile.BadZipFile on a CRC mismatch).
EntryKinds == BlobKinds \cup {"badcrc"}

\* the member name as a string
RECURSIVE JoinDir(_)
JoinDir(dir) == IF dir = <<>> THEN "" ELSE Head(dir) \o "/" \o JoinDir(Tail(dir))

NameOf(n) == (IF n.abs THEN "/" ELSE "") \o JoinDir(n.dir) \o n.stem \o n.suffix

\* the text uncompyle6 reconstructs for the module stored under name n
SourceOf(n) == "source of " \o NameOf(n)

\* decompile_pyj_blob: the source text, or the exception raised
decompile_pyj_blob(kind, n) ==
    CASE kind = "module" -> [raised |-> FALSE, value |-> SourceOf(n), msg |-> ""]
      [] kind = "badzlib" ->
            [raised |-> TRUE, value |-> "", msg |-> "Error -3 while decompressing data"]
      [] kind = "assertfail" -> [raised |-> TRUE, value |-> "", msg |-> ""]

\* process_pyj_member: (member_name_in_zip, source, error)
process_pyj_member(n, kind) ==
    LET r == decompile_pyj_blob(kind, n)
    IN  IF r.raised
        THEN [member |-> n, source |-> "", error |-> r.msg]
        ELSE [member |-> n, source |-> r.value, error |-> ""]

\* ------------------------------------------------------------------ state
VARIABLES
    container,  \* whether zipfile.ZipFile(zip_path) opens: "ok" or "bad"
    archive,    \* zf.namelist(): the sequence of member names
    blob,       \* what zf.read(name) holds, per member name
    jobs,       \* args.jobs
    fs,         \* the tracked paths: absent, directory, or file with text
    diag,       \* <out>/decompile_errors.json: present?, and its mapping
    pc,         \* where main() is: start, pool, collect, done, failed
    work,       \* the work list of main(): member names (payload = blob[name])
    future,     \* per task: state, whether it returned or raised, its value
    applied,    \* tasks whose future the as_completed loop has handled
    errors,     \* the errors dict of main()
    run,        \* number of the current run
    fatal,      \* the uncaught exception that ended main(), "none" if none
    reads,      \* history: member names zf.read was called on in this run
    calls,      \* history: tasks on which a worker invoked process_pyj_member
    wrote,      \* history: tasks for which write_text completed in this run
    diagWrote,  \* history: this run opened decompile_errors.json for writing
    crashed,    \* history: tasks whose worker process died while running them
    recorded,   \* history: tasks for which the loop stored an errors entry
    fs0,        \* history: fs when this run started
    diag0,      \* history: diag when this run started
    prev        \* history: how the previous run ended

vars == <<container, archive, blob, jobs, fs, diag, pc, work, future, applied,
          errors, run, fatal, reads, calls, wrote, diagWrote, crashed, recorded,
          fs0, diag0, prev>>

EmptyMap == [k \in {} |-> ""]
NoFile == [present |-> FALSE, map |-> EmptyMap]
NoPrev == [ended |-> "none", wrotePaths |-> {}, errorKeys |-> {}, clean |-> TRUE]

\* sequences over S of length 0..n
RECURSIVE SeqsUpTo(_, _)
SeqsUpTo(S, n) ==
    IF n = 0 THEN {<<>>}
    ELSE LET shorter == SeqsUpTo(S, n - 1)
         IN  shorter \cup { Append(s, x) : s \in shorter, x \in S }

Range(s) == { s[i] : i \in 1..Len(s) }

\* the filesystem states a run can start from: nothing there, or things left
\* by earlier activity (files at destinations, a directory named a.py).
ConsistentFs(f) ==
    \A p \in Locs : f[p].kind # "none" => KindOf(f, Parent(p)) = "dir"

InitialFs ==
    { f \in [Locs -> {Absent, Dir, File("old")}] :
        /\ ConsistentFs(f)
        /\ Cardinality({ p \in Locs : f[p].kind # "none" }) <= MaxPrecreated }

\* the locations that the destination path of member n passes through
Touched(n) ==
    { l \in Locs : \E k \in 1..Len(OutPath(n).parts) :
          l = [abs |-> n.abs, parts |-> Canon(SubSeq(OutPath(n).parts, 1, k))] }

Init ==
    /\ container \in {"ok", "bad"}
    /\ archive \in SeqsUpTo(Members, MaxEntries)
    /\ container = "bad" => archive = <<>>
    /\ blob \in [Members -> EntryKinds]
    /\ \A n \in Members : n \notin Range(archive) \/ ~EndsWithPyj(n) => blob[n] = "module"
    /\ jobs \in JobsValues
    /\ fs \in InitialFs
    /\ \A p \in Locs :
          fs[p].kind # "none" => \E n \in Range(archive) : EndsWithPyj(n) /\ p \in Touched(n)
    /\ diag = NoFile
    /\ pc = "start"
    /\ work = <<>>
    /\ future = <<>>
    /\ applied = {}
    /\ errors = EmptyMap
    /\ run = 1
    /\ fatal = "none"
    /\ reads = {}
    /\ calls = {}
    /\ wrote = {}
    /\ diagWrote = FALSE
    /\ crashed = {}
    /\ recorded = {}
    /\ fs0 = fs
    /\ diag0 = diag
    /\ prev = NoPrev

\* ------------------------------------------------------------ enumeration
\* The uncaught exceptions that end main(): "open" is the BadZipFile raised by
\* zipfile.ZipFile (line 124), "read" the one raised by zf.read (line 132),
\* "skiplog" the ValueError of relative_to in the Skip log line (line 130),
\* "pool" the ValueError of ProcessPoolExecutor (line 141).
Fatals == {"none", "open", "read", "skiplog", "pool"}

\* the loop of lines 125-133 with the exists() check of line 129 negated
RECURSIVE SelectWorkInverted(_, _)
SelectWorkInverted(names, f) ==
    IF names = <<>> THEN [raised |-> "none", work |-> <<>>, reads |-> {}]
    ELSE LET n == Head(names)
             out_path == OutPath(n)
             rest == SelectWorkInverted(Tail(names), f)
         IN  IF ~EndsWithPyj(n) THEN rest
             ELSE IF ~Exists(f, out_path)
             THEN IF RelativeToRaises(out_path)
                  THEN [raised |-> "skiplog", work |-> <<>>, reads |-> {}]
                  ELSE rest
             ELSE IF blob[n] = "badcrc"
             THEN [raised |-> "read", work |-> <<>>, reads |-> {n}]
             ELSE [raised |-> rest.raised, work |-> <<n>> \o rest.work,
                   reads |-> {n} \cup rest.reads]

\* the loop of lines 125-133 with an entry that zf.read fails on passed over
\* instead of ending the run
RECURSIVE SelectWorkLenient(_, _)
SelectWorkLenient(names, f) ==
    IF names = <<>> THEN [raised |-> "none", work |-> <<>>, reads |-> {}]
    ELSE LET n == Head(names)
             out_path == OutPath(n)
             rest == SelectWorkLenient(Tail(names), f)
         IN  IF ~EndsWithPyj(n) THEN rest
             ELSE IF Exists(f, out_path)
             THEN IF RelativeToRaises(out_path)
                  THEN [raised |-> "skiplog", work |-> <<>>, reads |-> {}]
                  ELSE rest
             ELSE IF blob[n] = "badcrc"
             THEN [rest EXCEPT !.reads = @ \cup {n}]
             ELSE [raised |-> rest.raised, work |-> <<n>> \o rest.work,
                   reads |-> {n} \cup rest.reads]

\* the loop of lines 125-133 without the endswith(".pyj") test of line 126
RECURSIVE SelectWorkNoFilter(_, _)
SelectWorkNoFilter(names, f) ==
    IF names = <<>> THEN [raised |-> "none", work |-> <<>>, reads |-> {}]
    ELSE LET n == Head(names)
             out_path == OutPath(n)
             rest == SelectWorkNoFilter(Tail(names), f)
         IN  IF Exists(f, out_path)
             THEN IF RelativeToRaises(out_path)
                  THEN [raised |-> "skiplog", work |-> <<>>, reads |-> {}]
                  ELSE rest
             ELSE IF blob[n] = "badcrc"
             THEN [raised |-> "read", work |-> <<>>, reads |-> {n}]
             ELSE [raised |-> rest.raised, work |-> <<n>> \o rest.work,
                   reads |-> {n} \cup rest.reads]

\* main(), lines 125-133: the loop over zf.namelist().  It leaves the work
\* list (the filtered, not yet existing members, in listing order) and the
\* names it read, and stops at the first entry on which the Skip log line or
\* zf.read raises.
RECURSIVE SelectWork(_, _)
SelectWork(names, f) ==
    IF names = <<>> THEN [raised |-> "none", work |-> <<>>, reads |-> {}]
    ELSE LET n == Head(names)
             out_path == OutPath(n)
             rest == SelectWork(Tail(names), f)
         IN  IF ~EndsWithPyj(n) THEN rest
             ELSE IF Exists(f, out_path)
             THEN IF RelativeToRaises(out_path)
                  THEN [raised |-> "skiplog", work |-> <<>>, reads |-> {}]
                  ELSE rest
             ELSE IF blob[n] = "badcrc"
             THEN [raised |-> "read", work |-> <<>>, reads |-> {n}]
             ELSE [raised |-> rest.raised, work |-> <<n>> \o rest.work,
                   reads |-> {n} \cup rest.reads]

\* main(), lines 118-137: the archive is opened and enumerated; an exception
\* in there ends the run, an empty work list ends it with "Nothing to do."
Enumerate ==
    /\ pc = "start"
    /\ LET sel == IF container = "bad"
                  THEN [raised |-> "open", work |-> <<>>, reads |-> {}]
                  ELSE SelectWork(archive, fs)
       IN  /\ work' = sel.work
           /\ reads' = sel.reads
           /\ fatal' = sel.raised
           /\ pc' = IF sel.raised # "none" THEN "failed"
                    ELSE IF sel.work = <<>> THEN "done" ELSE "pool"
    /\ UNCHANGED <<container, archive, blob, jobs, fs, diag, future, applied,
                   errors, run, calls, wrote, diagWrote, crashed, recorded, fs0,
                   diag0, prev>>

\* ------------------------------------------------------------- the pool
Tasks == 1..Len(work)

Pending == [state |-> "pending", outcome |-> "none", exc |-> "",
            result |-> [member |-> Member(FALSE, <<>>, "", ""), source |-> "", error |-> ""]]

BrokenProcessPool == "A process in the process pool was terminated abruptly"

\* ProcessPoolExecutor(max_workers=args.jobs) raises ValueError for a width
\* below 1
PoolCtorRaises(j) == j < 1

\* main(), lines 139-142: the pool is built and every work item submitted
CreatePool ==
    /\ pc = "pool"
    /\ IF PoolCtorRaises(jobs)
       THEN /\ pc' = "failed"
            /\ fatal' = "pool"
            /\ UNCHANGED future
       ELSE /\ pc' = "collect"
            /\ future' = [i \in Tasks |-> Pending]
            /\ UNCHANGED fatal
    /\ UNCHANGED <<container, archive, blob, jobs, fs, diag, work, applied,
                   errors, run, reads, calls, wrote, diagWrote, crashed,
                   recorded, fs0, diag0, prev>>

Running == { i \in Tasks : future[i].state = "running" }

\* a free worker process takes the oldest queued call and enters
\* process_pyj_member (line 81)
WorkerTake(i) ==
    /\ pc = "collect"
    /\ future[i].state = "pending"
    /\ \A k \in Tasks : future[k].state = "pending" => i <= k
    /\ Cardinality(Running) < jobs
    /\ future' = [future EXCEPT ![i].state = "running"]
    /\ calls' = calls \cup {i}
    /\ UNCHANGED <<container, archive, blob, jobs, fatal, reads, fs, diag, pc,
                   work, applied, errors, run, wrote, diagWrote, crashed,
                   recorded, fs0, diag0, prev>>

\* process_pyj_member returning the triple of the call submitted next to it
WorkerFinishSwapped(i) ==
    /\ pc = "collect"
    /\ future[i].state = "running"
    /\ LET k == Len(work) + 1 - i
       IN  future' = [future EXCEPT ![i] =
                    [state |-> "finished", outcome |-> "returned", exc |-> "",
                     result |-> process_pyj_member(work[k], blob[work[k]])]]
    /\ UNCHANGED <<container, archive, blob, jobs, fatal, reads, fs, diag, pc,
                   work, applied, errors, run, calls, wrote, diagWrote, crashed,
                   recorded, fs0, diag0, prev>>

\* process_pyj_member returning after having written its source itself
WorkerFinishWrites(i) ==
    /\ pc = "collect"
    /\ future[i].state = "running"
    /\ future' = [future EXCEPT ![i] =
                    [state |-> "finished", outcome |-> "returned", exc |-> "",
                     result |-> process_pyj_member(work[i], blob[work[i]])]]
    /\ fs' = IF Resolve(fs, OutPath(work[i])).ok
             THEN [fs EXCEPT ![Resolve(fs, OutPath(work[i])).loc] =
                      File(process_pyj_member(work[i], blob[work[i]]).source)]
             ELSE fs
    /\ UNCHANGED <<container, archive, blob, jobs, fatal, reads, diag, pc, work,
                   applied, errors, run, calls, wrote, diagWrote, crashed,
                   recorded, fs0, diag0, prev>>

\* process_pyj_member returns (lines 86-93) and the future completes
WorkerFinish(i) ==
    /\ pc = "collect"
    /\ future[i].state = "running"
    /\ future' = [future EXCEPT ![i] =
                    [state |-> "finished", outcome |-> "returned", exc |-> "",
                     result |-> process_pyj_member(work[i], blob[work[i]])]]
    /\ UNCHANGED <<container, archive, blob, jobs, fatal, reads, fs, diag, pc,
                   work, applied, errors, run, calls, wrote, diagWrote,
                   crashed, recorded, fs0, diag0, prev>>

\* what the executor does with the futures when a worker process dies: every
\* future that has not completed fails with BrokenProcessPool
BreakPool(fut) ==
    [k \in DOMAIN fut |->
        IF fut[k].state = "finished" THEN fut[k]
        ELSE [fut[k] EXCEPT !.state = "finished", !.outcome = "raised",
                            !.exc = BrokenProcessPool]]

\* the worker process running task i dies inside the decompiler (killed, or
\* crashed in native code)
WorkerCrash(i) ==
    /\ pc = "collect"
    /\ future[i].state = "running"
    /\ future' = BreakPool(future)
    /\ crashed' = crashed \cup {i}
    /\ UNCHANGED <<container, archive, blob, jobs, fatal, reads, fs, diag, pc,
                   work, applied, errors, run, calls, wrote, diagWrote,
                   recorded, fs0, diag0, prev>>

\* ------------------------------------------------------------- the sink
Put(m, k, v) == [x \in DOMAIN m \cup {k} |-> IF x = k THEN v ELSE m[x]]

\* os.mkdir(p)
os_mkdir(f, p) ==
    Bind(Resolve(f, p), LAMBDA w :
        IF ~w.ok THEN [ok |-> FALSE, err |-> w.err, fs |-> f]
        ELSE IF KindOf(f, w.loc) # "none" THEN [ok |-> FALSE, err |-> "EEXIST", fs |-> f]
        ELSE [ok |-> TRUE, err |-> "", fs |-> [f EXCEPT ![w.loc] = Dir]])

\* Path.mkdir(parents=True, exist_ok=True): whether it returned, and the
\* filesystem it leaves.  os.mkdir first; on FileNotFoundError the (lexical)
\* parent is made and os.mkdir tried once more; any other OSError is
\* swallowed iff the path is a directory.
RECURSIVE mkdir(_, _)
mkdir(f, p) ==
    LET first == os_mkdir(f, p)
    IN  IF first.ok THEN [ok |-> TRUE, fs |-> first.fs]
        ELSE IF first.err = "ENOENT"
        THEN IF p.parts = <<>> THEN [ok |-> FALSE, fs |-> f]
             ELSE LET up == mkdir(f, Parent(p))
                      again == os_mkdir(up.fs, p)
                  IN  IF ~up.ok THEN up
                      ELSE IF again.ok THEN [ok |-> TRUE, fs |-> again.fs]
                      ELSE [ok |-> again.err # "ENOENT" /\ Stat(up.fs, p) = "dir",
                            fs |-> up.fs]
        ELSE [ok |-> Stat(f, p) = "dir", fs |-> f]

\* Path.write_text(source): create-or-truncate at the resolved location;
\* fails when the path cannot be resolved or names a directory
write_text(f, p, text) ==
    Bind(Resolve(f, p), LAMBDA w :
        IF ~w.ok \/ KindOf(f, w.loc) = "dir"
        THEN [ok |-> FALSE, fs |-> f]
        ELSE [ok |-> TRUE, fs |-> [f EXCEPT ![w.loc] = File(text)]])

\* the body of the as_completed loop for one completed future (lines
\* 144-157): the filesystem and errors dict it leaves, whether write_text
\* completed, and whether an errors entry was stored
SinkBody(f, errs, name, fut) ==
    LET out_path == OutPath(name)
        r == fut.result
        made == mkdir(f, Parent(out_path))
        written == write_text(made.fs, out_path, r.source)
    IN  IF fut.outcome = "raised"
        THEN [fs |-> f, errors |-> Put(errs, name, fut.exc),
              wrote |-> FALSE, recorded |-> TRUE]
        ELSE IF r.error # ""
        THEN [fs |-> f, errors |-> Put(errs, r.member, r.error),
              wrote |-> FALSE, recorded |-> TRUE]
        ELSE IF ~made.ok
        THEN [fs |-> made.fs, errors |-> Put(errs, name, "[Errno 17] File exists"),
              wrote |-> FALSE, recorded |-> TRUE]
        ELSE IF ~written.ok
        THEN [fs |-> written.fs, errors |-> Put(errs, name, "[Errno 21] Is a directory"),
              wrote |-> FALSE, recorded |-> TRUE]
        ELSE IF RelativeToRaises(out_path)
        THEN [fs |-> written.fs, errors |-> Put(errs, name, "path is not in the subpath"),
              wrote |-> TRUE, recorded |-> TRUE]
        ELSE [fs |-> written.fs, errors |-> errs, wrote |-> TRUE, recorded |-> FALSE]

\* main handles one completed future
SinkApply(i) ==
    /\ pc = "collect"
    /\ i \in Tasks \ applied
    /\ future[i].state = "finished"
    /\ \E s \in {SinkBody(fs, errors, work[i], future[i])} :
           /\ fs' = s.fs
           /\ errors' = s.errors
           /\ wrote' = IF s.wrote THEN wrote \cup {i} ELSE wrote
           /\ recorded' = IF s.recorded THEN recorded \cup {i} ELSE recorded
    /\ applied' = applied \cup {i}
    /\ UNCHANGED <<container, archive, blob, jobs, fatal, reads, diag, pc,
                   work, future, run, calls, diagWrote, crashed, fs0, diag0,
                   prev>>

\* whether main dumps the errors dict (line 159)
ShouldDump(errs) == errs # EmptyMap

\* lines 159-165 reached without waiting for the loop to handle every future
FinalizeEarly ==
    /\ pc = "collect"
    /\ IF ShouldDump(errors)
       THEN /\ diag' = [present |-> TRUE, map |-> errors]
            /\ diagWrote' = TRUE
       ELSE UNCHANGED <<diag, diagWrote>>
    /\ pc' = "done"
    /\ UNCHANGED <<container, archive, blob, jobs, fatal, reads, fs, work,
                   future, applied, errors, run, calls, wrote, crashed,
                   recorded, fs0, diag0, prev>>

\* main(), lines 159-165, once the loop has handled every future
Finalize ==
    /\ pc = "collect"
    /\ applied = Tasks
    /\ IF ShouldDump(errors)
       THEN /\ diag' = [present |-> TRUE, map |-> errors]
            /\ diagWrote' = TRUE
       ELSE UNCHANGED <<diag, diagWrote>>
    /\ pc' = "done"
    /\ UNCHANGED <<container, archive, blob, jobs, fatal, reads, fs, work,
                   future, applied, errors, run, calls, wrote, crashed,
                   recorded, fs0, diag0, prev>>

WrittenPaths == { OutPath(work[i]) : i \in wrote }

\* the tool is started again on the same archive and output root
Rerun ==
    /\ pc \in {"done", "failed"}
    /\ run < MaxRuns
    /\ run' = run + 1
    /\ prev' = [ended |-> pc, wrotePaths |-> WrittenPaths,
                errorKeys |-> DOMAIN errors, clean |-> crashed = {}]
    /\ pc' = "start"
    /\ work' = <<>>
    /\ future' = <<>>
    /\ applied' = {}
    /\ errors' = EmptyMap
    /\ calls' = {}
    /\ wrote' = {}
    /\ diagWrote' = FALSE
    /\ crashed' = {}
    /\ recorded' = {}
    /\ fs0' = fs
    /\ diag0' = diag
    /\ fatal' = "none"
    /\ reads' = {}
    /\ UNCHANGED <<container, archive, blob, jobs, fs, diag>>

Next ==
    \/ Enumerate
    \/ CreatePool
    \/ \E i \in Tasks : WorkerTake(i)
    \/ \E i \in Tasks : WorkerFinish(i)
    \/ \E i \in Tasks : WorkerCrash(i)
    \/ \E i \in Tasks : SinkApply(i)
    \/ Finalize
    \/ Rerun

Spec == Init /\ [][Next]_vars

\* a step of the pool or of the main thread that carries a started run on
Progress ==
    \/ \E i \in Tasks : WorkerTake(i)
    \/ \E i \in Tasks : WorkerFinish(i)
    \/ \E i \in Tasks : SinkApply(i)
    \/ Finalize

\* Scheduling: the processes are scheduled and a decode ends, so a started
\* run does not stand still while a worker can take a queued call, a running
\* call can return, or the main thread can handle a completed future or go
\* on to the dump.  A worker death is possible but never required, and
\* starting the tool again is left to the user.
FairSpec == Spec /\ WF_vars(Progress)

\* ------------------------------------------------------------ properties
FilteredEntries == { n \in Range(archive) : EndsWithPyj(n) }

\* the decode step of task i raises (decompression or decompile)
DecodeRaises(i) == decompile_pyj_blob(blob[work[i]], work[i]).raised

\* a member name directly under client_code: no directory part, not absolute
TopLevel(n) == ~n.abs /\ n.dir = <<>>

\* a run in which no worker died and whose work items are distinct top-level
\* names, so that no two destination paths touch each other
PlainRun ==
    /\ crashed = {}
    /\ \A i \in Tasks : TopLevel(work[i])
    /\ \A i, k \in Tasks : work[i] = work[k] => i = k

\* C1: when a run ends, every submitted work item has exactly one terminal
\* effect: its source was written, or an errors entry was stored for it --
\* never both, never neither.
C1_ExactlyOneEffect ==
    pc = "done" => \A i \in Tasks : (i \in wrote) # (i \in recorded)

\* C2: after a full run, for every filtered archive entry whose destination
\* is not a directory, exactly one of "a file exists at its destination path"
\* and "its name is a key of decompile_errors.json" holds.
C2_FileXorDiagnosticKey ==
    pc = "done" =>
        \A n \in FilteredEntries :
            Stat(fs, OutPath(n)) # "dir" =>
                (Stat(fs, OutPath(n)) = "file") # (diag.present /\ n \in DOMAIN diag.map)

\* C3: in a run of N distinct top-level items of which K fail the decode
\* step and in which no worker dies, all N tasks are handled, exactly K names
\* are in the errors dict and exactly N-K sources are written.
C3_FailureIsolation ==
    (pc = "done" /\ PlainRun) =>
        LET K == Cardinality({ i \in Tasks : DecodeRaises(i) })
        IN  /\ applied = Tasks
            /\ Cardinality(DOMAIN errors) = K
            /\ Cardinality(wrote) = Len(work) - K

\* this run follows a run that went through to its end
SecondRun == run >= 2 /\ prev.ended = "done" /\ pc # "start"

C5_SkipExisting ==
    (pc # "start" /\ fatal \notin {"open", "read"}) =>
        \A n \in FilteredEntries :
            IF Exists(fs0, OutPath(n))
            THEN /\ n \notin Range(work)
                 /\ \A i \in calls : work[i] # n
                 /\ fs[Resolve(fs0, OutPath(n)).loc] = fs0[Resolve(fs0, OutPath(n)).loc]
                 /\ n \notin DOMAIN errors
            ELSE /\ n \in Range(work)
                 /\ pc = "done" => \E i \in applied : work[i] = n

\* what the run leaves when the futures are handled in submission order, up
\* to task k
RECURSIVE SubmissionOrderRun(_)
SubmissionOrderRun(k) ==
    IF k = 0 THEN [fs |-> fs0, errors |-> EmptyMap, written |-> {}]
    ELSE LET before == SubmissionOrderRun(k - 1)
             fut == [state |-> "finished", outcome |-> "returned", exc |-> "",
                     result |-> process_pyj_member(work[k], blob[work[k]])]
             s == SinkBody(before.fs, before.errors, work[k], fut)
         IN  [fs |-> s.fs, errors |-> s.errors,
              written |-> IF s.wrote THEN before.written \cup {OutPath(work[k])}
                          ELSE before.written]

\* C6: with no worker death, the set of destination paths written and the
\* set of errors keys at the end of a run are those of the run that handles
\* the futures in submission order, whatever the completion order and width.
C6_OrderInvariance ==
    (pc = "done" /\ crashed = {}) =>
        LET r == SubmissionOrderRun(Len(work))
        IN  /\ WrittenPaths = r.written
            /\ DOMAIN errors = DOMAIN r.errors

\* C7: a requested width below 1 with work to do does not make the run fail.
C7_WidthClamped ==
    (jobs < 1 /\ work # <<>>) => fatal # "pool"

\* C8: a task whose decode step raised and whose future was handled by the
\* loop has its name in the errors dict and no source written for it.
C8_DecodeFailureRecorded ==
    \A i \in applied :
        (future[i].outcome = "returned" /\ DecodeRaises(i)) =>
            /\ i \in recorded
            /\ i \notin wrote
            /\ work[i] \in DOMAIN errors

\* C9: when a run ends, a task whose worker died is recorded as a failure
\* and nothing is written for it, and every other task with a distinct
\* top-level name whose decode succeeds has its source written and no
\* failure recorded.
C9_CrashContained ==
    pc = "done" =>
        \A i \in Tasks :
            /\ i \in crashed => (i \in recorded /\ i \notin wrote)
            /\ ( /\ i \notin crashed
                 /\ ~DecodeRaises(i)
                 /\ TopLevel(work[i])
                 /\ \A k \in Tasks : work[k] = work[i] => k = i )
               => (i \in wrote /\ i \notin recorded)

\* task i failed in this run: its decode raised, or the loop stored an errors
\* entry for it
ItemFailed(i) == DecodeRaises(i) \/ i \in recorded

\* C10: a finished run has written decompile_errors.json iff some item
\* failed in it; if not, the file is as it was before the run; if so, its
\* keys are exactly the names that failed in this run.
C10_DiagnosticIffFailures ==
    pc = "done" =>
        /\ diagWrote <=> \E i \in Tasks : ItemFailed(i)
        /\ ~diagWrote => diag = diag0
        /\ diagWrote =>
              /\ diag.present
              /\ DOMAIN diag.map = { work[i] : i \in { t \in Tasks : ItemFailed(t) } }
\* the filtered entries main() tries to read: those with nothing at their
\* destination when the run started
ReadAttempted == { n \in FilteredEntries : ~Exists(fs0, OutPath(n)) }

\* C11: a run whose archive cannot be opened, or in which zf.read fails on a
\* filtered entry it tries to read, ends before any task is submitted: there
\* is no future, no adapter call, no source written, and the output tree and
\* decompile_errors.json are as the run found them.  Whenever tasks exist,
\* the bytes of every work item have been read, and nothing else was read.
C11_ArchiveErrorsFatal ==
    /\ ( /\ pc # "start"
         /\ \/ container = "bad"
            \/ \E n \in ReadAttempted : blob[n] = "badcrc" )
       => ( /\ pc = "failed"
            /\ fatal \in Fatals \ {"none", "pool"}
            /\ future = <<>> /\ calls = {} /\ wrote = {}
            /\ fs = fs0 /\ diag = diag0 /\ ~diagWrote )
    /\ fatal \in {"open", "read"} =>
          (pc = "failed" /\ future = <<>> /\ calls = {} /\ fs = fs0 /\ diag = diag0)
    /\ future # <<>> => (reads = Range(work) /\ fatal = "none")

\* a run that read and kept one entry and was ended by the read of the next
C11_Witness ==
    /\ fatal = "read"
    /\ pc = "failed"
    /\ work # <<>>
    /\ Cardinality(reads) = 2
C13_SingleWriter ==
    [][ pc' # "start" =>
        /\ (fs' # fs \/ errors' # errors) =>
             /\ pc = "collect" /\ pc' = "collect"
             /\ future' = future /\ calls' = calls /\ diag' = diag
             /\ \E i \in Tasks \ applied :
                   /\ future[i].state = "finished"
                   /\ applied' = applied \cup {i}
        /\ diag' # diag =>
             /\ pc = "collect" /\ pc' = "done" /\ applied = Tasks
             /\ future' = future /\ fs' = fs /\ errors' = errors
        /\ future' # future => (fs' = fs /\ errors' = errors /\ diag' = diag)
      ]_vars

\* the main thread has written one source while another completed future
\* waits to be handled
C13_Witness ==
    /\ pc = "collect"
    /\ wrote # {}
    /\ \E k \in Tasks \ applied : future[k].state = "finished"
\* the file that the destination path of task i names, once it is written
WrittenLoc(i) == Resolve(fs, OutPath(work[i])).loc

\* C14: no task writes where something already was when the run started,
\* and no two tasks of a run write the same file.
C14_NoClobber ==
    \A i \in wrote :
        /\ fs0[WrittenLoc(i)].kind = "none"
        /\ \A k \in wrote : WrittenLoc(k) = WrittenLoc(i) => k = i

\* C15: every triple that process_pyj_member returns has exactly one of its
\* source and its error message non-empty.
C15_ExactlyOneNonEmpty ==
    \A i \in DOMAIN future :
        future[i].outcome = "returned" =>
            (future[i].result.source # "") # (future[i].result.error # "")

\* C16: when the enumeration goes through, a filtered entry is left out of
\* the work list iff a regular file was at its destination when the run
\* started; with nothing or a directory there it is in the work list and
\* was read.
C16_SkipIffRegularFile ==
    (pc # "start" /\ fatal \in {"none", "pool"}) =>
        \A n \in FilteredEntries :
            IF Stat(fs0, OutPath(n)) = "file"
            THEN n \notin Range(work)
            ELSE n \in Range(work) /\ n \in reads

\* C17: every source a run writes is below client_code, and nothing at an
\* absolute destination is created or changed.
C17_OutputContained ==
    /\ \A i \in wrote : ~OutPath(work[i]).abs /\ ~WrittenLoc(i).abs
    /\ \A p \in Locs : p.abs => fs[p] = fs0[p]

\* the messages that handling task i may store: the message of its own
\* decode, BrokenProcessPool, or that of an OSError or ValueError on its own
\* destination path
OwnMessages(i) ==
    IF future[i].outcome = "raised" THEN {BrokenProcessPool}
    ELSE IF process_pyj_member(work[i], blob[work[i]]).error # ""
    THEN {process_pyj_member(work[i], blob[work[i]]).error}
    ELSE {"[Errno 17] File exists", "[Errno 21] Is a directory",
          "path is not in the subpath"}

\* C18: a completed future carries the triple of its own work item, and the
\* step that handles task i writes, if it writes, the source that decoding
\* the payload of work item i returns at the destination of work item i, and stores, if
\* it stores an errors entry, a message of task i under the name of work
\* item i, leaving the other entries as they were.
C18_NoCrossWiring ==
    [][\A i \in Tasks :
          (pc = "collect" /\ i \in applied' \ applied) =>
              /\ future[i].outcome = "returned" =>
                    future[i].result = process_pyj_member(work[i], blob[work[i]])
              /\ i \in wrote' =>
                    fs'[Resolve(fs', OutPath(work[i])).loc] =
                        File(process_pyj_member(work[i], blob[work[i]]).source)
              /\ i \in recorded' =>
                    /\ DOMAIN errors' = DOMAIN errors \cup {work[i]}
                    /\ errors'[work[i]] \in OwnMessages(i)
                    /\ \A n \in DOMAIN errors \ {work[i]} : errors'[n] = errors[n]
              /\ i \notin recorded' => errors' = errors
      ]_vars

\* two tasks with different outcomes were handled in the order opposite to
\* their submission: the second wrote its source, then the first was recorded
C18_Witness ==
    /\ pc = "done"
    /\ Len(work) = 2
    /\ 2 \in wrote /\ 2 \notin recorded
    /\ 1 \in recorded /\ 1 \notin wrote
    /\ errors = (work[1] :> "Error -3 while decompressing data")
    /\ fs[Resolve(fs, OutPath(work[2])).loc] = File(SourceOf(work[2]))

\* C19: an archive entry whose name does not end with ".pyj" is never read,
\* is not in the work list, has no key in the errors dict or in
\* decompile_errors.json, and what is at the path that line 128 would give
\* for it is as the run found it.
C19_NonPyjIgnored ==
    \A n \in Range(archive) \ FilteredEntries :
        /\ n \notin reads
        /\ n \notin Range(work)
        /\ n \notin DOMAIN errors
        /\ n \notin DOMAIN diag.map
        /\ LET loc == [abs |-> n.abs, parts |-> Canon(OutPath(n).parts)]
           IN  fs[loc] = fs0[loc]

\* a finished run over an archive that holds a .pyj entry, which it wrote,
\* and an entry of another kind
C19_Witness ==
    /\ pc = "done"
    /\ wrote # {}
    /\ Range(archive) \ FilteredEntries # {}
====
